---- MODULE Spec2Model ----
(***************************************************************************)
(* Boxity backend: the /analyze difference-detection and scoring pipeline. *)
(*                                                                         *)
(* One request analyses one image pair (single-angle) or two (dual-angle). *)
(* For every angle: two Gemini calls -> merge by (region, type) -> limit   *)
(* to 8 -> _validate_or_repair -> classical CV fallback when the average   *)
(* confidence is below 0.6 or the response is invalid -> TIS and overall   *)
(* assessment.  A dual-angle request then combines the two angle results.  *)
(*                                                                         *)
(* Confidences are held in hundredths (0.84 is 84); a mean is the pair     *)
(* [num, den] so that no rounding is introduced by the model.              *)
(*                                                                         *)
(* The clients of the service are modelled next to it, each with a         *)
(* specification of its own: the web dashboard's SolanaWalletConnect and   *)
(* solanaService (WalletSpec, LogSpec) and SupabaseAuthProvider            *)
(* (SupabaseSpec), and the mobile app's AuthProvider, Index and            *)
(* LoginScreen (MobileSpec).  An asynchronous call is one step up to each  *)
(* await that leaves the event loop, and one step for what follows it.     *)
(***************************************************************************)
EXTENDS Integers, Sequences, FiniteSets, TLC

VARIABLES
    mode,        \* "single", "dual" or "invalid": the shape of the request
    pc,          \* per angle: position of _analyze_pair
    resp,        \* per angle, per model: "pending" | "ok" | "failed"
    raw,         \* per angle, per model: the differences the model returned
    arrival,     \* per angle, inside call_gemini_ensemble: the models in the
                 \* order their calls completed
    timedOut,    \* per angle, inside call_gemini_ensemble: the models whose
                 \* call ran into its timeout
    mergedAll,   \* per angle: list1 + list2 de-duplicated, before the limit
    payload,     \* per angle: the merged, limited ensemble payload
    vstate,      \* per angle: "Pending" | "RepairAttempted" | "Valid" | "Failed"
    vraised,     \* per angle: what left _validate_or_repair as an exception
    repairCalls, \* per angle: number of repair generate_content calls issued
    validated,   \* per angle: the differences after validation
    respInvalid, \* per angle: the response was invalid and replaced by []
    fb,          \* per angle: what the classical CV fallback did
    cvOut,       \* per angle: the differences the CV fallback proposed
    result,      \* per angle: the AnalysisResult returned, or NoResult
    error,       \* per angle: the failure that ended the analysis, or "none"
    combined,    \* the MultiAngleResult of a dual-angle request, or NoResult
    finished,    \* history, kept by OrderSpec: the angles whose analysis
                 \* returned, in the order they did
    wallet,        \* dashboard: state of the SolanaWalletConnect component
    solanaService, \* dashboard: the fields of the solanaService singleton
    logCall,       \* dashboard: per caller, the position of its logEvent call
    chain,         \* the supply_chain_trust program: its state and its accounts
    supabaseSession, \* dashboard: the user of the session the supabase client holds
    supabaseAuth,  \* dashboard: state of the SupabaseAuthProvider component
    auth,          \* mobile app: state of AuthProvider and of its calls in flight
    storage,       \* mobile app: AsyncStorage under @boxity_auth_token, @boxity_user
    screen         \* mobile app: the route shown and the state of LoginScreen

\* the analysis service
serverVars == <<mode, pc, resp, raw, arrival, timedOut, mergedAll, payload, vstate, vraised,
                repairCalls, validated, respInvalid, fb, cvOut, result, error, combined,
                finished>>

\* the web dashboard and the mobile app
walletVars == <<wallet, solanaService>>
logVars == <<logCall, chain>>
supaVars == <<supabaseSession, supabaseAuth>>
mobileVars == <<auth, storage, screen>>
clientVars == <<walletVars, logVars, supaVars, mobileVars>>

\* what the steps of one component leave alone
walletRest == <<serverVars, logVars, supaVars, mobileVars>>
logRest == <<serverVars, walletVars, supaVars, mobileVars>>
supaRest == <<serverVars, walletVars, logVars, mobileVars>>
mobileRest == <<serverVars, walletVars, logVars, supaVars>>

vars == <<serverVars, clientVars>>

(***************************************************************************)
(* Bounds of the model.                                                    *)
(***************************************************************************)
\* entries each model call may return in a single-angle request
MaxOut == 6
\* entries each model call may return, per angle, in a dual-angle request
MaxOutDual == 1
\* region proposals the classical CV fallback may return
MaxCv == 2
\* region proposals the fallback may return, per angle, in a dual-angle request
MaxCvDual == 0
\* dashboard: isUserAuthorized calls in flight at the same time
MaxChecks == 2
\* dashboard: events the program logs
MaxEventId == 3
\* dashboard: checkSession calls in flight at the same time
MaxSessionChecks == 2
\* mobile app: logout calls in flight at the same time
MaxLogouts == 1

(***************************************************************************)
(* Configuration constants.                                                *)
(***************************************************************************)
\* "Limit to 8 differences (prevent hallucination)"
MaxDifferences == 8
\* average confidence (hundredths) below which the CV fallback runs
ConfidenceThreshold == 60
\* TIS starts from a baseline of 100
TisBaseline == 100
\* TIS >= 80 is SAFE
SafeThreshold == 80
\* TIS 40-79 is MODERATE_RISK
ModerateThreshold == 40

Angles == {1, 2}
Models == {1, 2}
NoResult == [none |-> TRUE]

Min(a, b) == IF a < b THEN a ELSE b
Max(a, b) == IF a > b THEN a ELSE b

(***************************************************************************)
(* Detection taxonomy: type -> severity, TIS delta.                        *)
(***************************************************************************)
DetectionTypes ==
    {"seal_tamper", "repackaging", "digital_edit", "label_mismatch",
     "missing_item", "color_shift", "dent", "scratch", "stain"}

TisDeltaTable(type) ==
    CASE type = "seal_tamper"    -> -40
      [] type = "repackaging"    -> -35
      [] type = "digital_edit"   -> -50
      [] type = "label_mismatch" -> -40
      [] type = "missing_item"   -> -35
      [] type = "color_shift"    -> -20
      [] type = "dent"           -> -15
      [] type = "scratch"        -> -8
      [] type = "stain"          -> -5

SeverityTable(type) ==
    CASE type \in {"seal_tamper", "repackaging", "digital_edit",
                   "label_mismatch", "missing_item"} -> "HIGH"
      [] type \in {"color_shift", "dent"}            -> "MEDIUM"
      [] type \in {"scratch", "stain"}               -> "LOW"

\* security issues that force HIGH_RISK regardless of TIS
CriticalTypes == {"seal_tamper", "repackaging", "digital_edit"}

Diff(id, region, type, severity, confidence, tis_delta) ==
    [id |-> id, region |-> region, type |-> type, severity |-> severity,
     confidence |-> confidence, tis_delta |-> tis_delta]

(***************************************************************************)
(* What the two Gemini calls can answer.  Each item is a JSON object of    *)
(* the prompt's schema: the model itself fills in severity and tis_delta.  *)
(* Both models number their items d1, d2, ...  A call answers with any     *)
(* run of consecutive items of its list below.                             *)
(***************************************************************************)
Model1Items ==
    << Diff("d1", "top edge",    "seal_tamper", "HIGH",   84, -40),
       Diff("d2", "left side",   "dent",        "MEDIUM", 78, -15),
       Diff("d3", "right side",  "scratch",     "LOW",    72, -8),
       Diff("d4", "front panel", "color_shift", "MEDIUM", 45, -20),
       Diff("d5", "left side",   "dent",        "HIGH",   40, -50),
       Diff("d6", "bottom edge", "stain",       "LOW",    50, -5),
       Diff("d7", "back panel",  "missing_item","HIGH",   30, -35) >>

Model2Items ==
    << Diff("d1", "front panel", "label_mismatch", "HIGH",   50, -40),
       Diff("d2", "top edge",    "seal_tamper",    "HIGH",   55, -40),
       Diff("d3", "center",      "stain",          "LOW",    35, -5),
       Diff("d4", "right side",  "dent",           "MEDIUM", 45, -15),
       Diff("d5", "bottom edge", "scratch",        "LOW",    40, -8),
       Diff("d6", "top edge",    "repackaging",    "HIGH",   30, -35),
       Diff("d7", "center",      "digital_edit",   "HIGH",   65, -50) >>

ModelItems(m) == IF m = 1 THEN Model1Items ELSE Model2Items

\* region proposals of the classical CV pipeline: heuristic type, fixed
\* conservative confidence, delta from the taxonomy table
CvItems ==
    << Diff("cv1", "left side", "dent",        SeverityTable("dent"),
            50, TisDeltaTable("dent")),
       Diff("cv2", "center",    "color_shift", SeverityTable("color_shift"),
            50, TisDeltaTable("color_shift")),
       Diff("cv3", "top edge",  "dent",        SeverityTable("dent"),
            50, TisDeltaTable("dent")) >>

RECURSIVE PickFrom(_, _, _)
\* the sub-list of items at the positions in S, from position i on
PickFrom(items, S, i) ==
    IF i > Len(items) THEN <<>>
    ELSE (IF i \in S THEN <<items[i]>> ELSE <<>>) \o PickFrom(items, S, i + 1)

OutLimit == IF mode = "dual" THEN MaxOutDual ELSE MaxOut

\* the runs of consecutive positions within 1..n, the empty run included
Runs(n) == {i..j : i \in 1..(n + 1), j \in 0..n}

CvLimit == IF mode = "dual" THEN MaxCvDual ELSE MaxCv

(***************************************************************************)
(* Ensemble merge (ai.py): first occurrence per (region, type) over        *)
(* list1 + list2, then limited to 8.                                       *)
(***************************************************************************)
RECURSIVE merge_loop(_, _, _)
merge_loop(items, seen, merged) ==
    IF items = <<>> THEN merged
    ELSE LET item == Head(items)
             key  == <<item.region, item.type>>
         IN  IF key \notin seen
             THEN merge_loop(Tail(items), seen \cup {key}, Append(merged, item))
             ELSE merge_loop(Tail(items), seen, merged)

\* variant: the second model's list is walked first
merge_second_first(list1, list2) == merge_loop(list2 \o list1, {}, <<>>)

merge(list1, list2) == merge_loop(list1 \o list2, {}, <<>>)

\* variant: the limit is not applied
limit_none(differences) == differences

limit(differences) ==
    SubSeq(differences, 1, Min(Len(differences), MaxDifferences))

(***************************************************************************)
(* Schema validation: a payload either matches RESPONSE_SCHEMA or not.     *)
(***************************************************************************)
\* variant: every payload is rejected
validate_rejects_all(p) == FALSE

validate(p) == p.wellformed

(***************************************************************************)
(* Confidence.                                                             *)
(***************************************************************************)
RECURSIVE conf_sum(_)
conf_sum(differences) ==
    IF differences = <<>> THEN 0
    ELSE Head(differences).confidence + conf_sum(Tail(differences))

\* variant: an empty list has confidence 0
avg_conf_empty_zero(differences) ==
    IF differences = <<>> THEN [num |-> 0, den |-> 1]
    ELSE [num |-> conf_sum(differences), den |-> Len(differences)]

\* mean of the per-difference confidences, 1.0 when there are none
avg_conf(differences) ==
    IF differences = <<>> THEN [num |-> 100, den |-> 1]
    ELSE [num |-> conf_sum(differences), den |-> Len(differences)]

\* average confidence < 0.6
low_confidence(differences) ==
    LET c == avg_conf(differences) IN c.num < ConfidenceThreshold * c.den

(***************************************************************************)
(* Classical CV fallback merge: CV results are merged with the Gemini      *)
(* results, Gemini preferred when both detect the same region/type.        *)
(***************************************************************************)
\* variant: the CV results come first and win
merge_fallback_cv_first(differences, cv) == merge(cv, differences)

merge_fallback(differences, cv) == merge(differences, cv)

(***************************************************************************)
(* Trust Integrity Score and overall assessment (_compute_overall).        *)
(***************************************************************************)
RECURSIVE tis_loop(_, _)
tis_loop(differences, tis) ==
    IF differences = <<>> THEN tis
    ELSE tis_loop(Tail(differences), tis + Head(differences).tis_delta)

\* variant: the sum is not clamped to [0, 100]
compute_tis_unclamped(differences) == tis_loop(differences, TisBaseline)

compute_tis(differences) ==
    Max(0, Min(100, tis_loop(differences, TisBaseline)))

has_critical(differences) ==
    \E i \in 1..Len(differences) : differences[i].type \in CriticalTypes

\* variant: thresholds only, no critical override
assess_thresholds_only(tis, differences) ==
    IF tis >= SafeThreshold THEN "SAFE"
    ELSE IF tis >= ModerateThreshold THEN "MODERATE_RISK"
    ELSE "HIGH_RISK"

\* variant: SAFE only above 80
assess_safe_strict(tis, differences) ==
    IF has_critical(differences) THEN "HIGH_RISK"
    ELSE IF tis > SafeThreshold THEN "SAFE"
    ELSE IF tis >= ModerateThreshold THEN "MODERATE_RISK"
    ELSE "HIGH_RISK"

assess(tis, differences) ==
    IF has_critical(differences) THEN "HIGH_RISK"
    ELSE IF tis >= SafeThreshold THEN "SAFE"
    ELSE IF tis >= ModerateThreshold THEN "MODERATE_RISK"
    ELSE "HIGH_RISK"

notes_for(assessment) ==
    CASE assessment = "SAFE" -> "Product integrity maintained - safe to proceed"
      [] assessment = "MODERATE_RISK" ->
             "Moderate risk detected - supervisor review recommended"
      [] assessment = "HIGH_RISK" ->
             "High risk detected - immediate quarantine required"

compute_overall(differences) ==
    LET tis == compute_tis(differences)
        a   == assess(tis, differences)
    IN  [differences        |-> differences,
         aggregate_tis      |-> tis,
         overall_assessment |-> a,
         confidence_overall |-> avg_conf(differences),
         notes              |-> notes_for(a)]

(***************************************************************************)
(* Dual-angle response: the differences of both angles, tagged with their  *)
(* view, scored like a single list; per-angle TIS kept in the metadata.    *)
(***************************************************************************)
tag_view(differences, prefix, view) ==
    [i \in 1..Len(differences) |->
        [id         |-> prefix \o differences[i].id,
         region     |-> differences[i].region,
         type       |-> differences[i].type,
         severity   |-> differences[i].severity,
         confidence |-> differences[i].confidence,
         tis_delta  |-> differences[i].tis_delta,
         view       |-> view]]

mean2(c1, c2) ==
    [num |-> c1.num * c2.den + c2.num * c1.den, den |-> 2 * c1.den * c2.den]

\* The documented dual-angle response gives aggregate_tis 77 for angle
\* values 85 and 69 and combined deltas -15 and -8.  Two computations give
\* 77 there, and the response does not tell them apart: both are admitted.
combined_tis(r1, r2, all) ==
    {compute_tis(all), (r1.aggregate_tis + r2.aggregate_tis) \div 2}

\* variant: the combined response reports the first angle's result twice
combine_angles_first_twice(r1, r2, tis) ==
    LET all == tag_view(r1.differences, "a1-", "angle_1")
               \o tag_view(r2.differences, "a2-", "angle_2")
        a   == assess(tis, all)
    IN  [differences        |-> all,
         aggregate_tis      |-> tis,
         overall_assessment |-> a,
         confidence_overall |-> mean2(r1.confidence_overall,
                                      r2.confidence_overall),
         notes              |-> notes_for(a),
         angle_results      |-> <<r1, r1>>,
         angle_1_tis        |-> r1.aggregate_tis,
         angle_2_tis        |-> r2.aggregate_tis,
         angle_tis_min      |-> Min(r1.aggregate_tis, r2.aggregate_tis),
         angle_tis_max      |-> Max(r1.aggregate_tis, r2.aggregate_tis)]

combine_angles(r1, r2, tis) ==
    LET all == tag_view(r1.differences, "a1-", "angle_1")
               \o tag_view(r2.differences, "a2-", "angle_2")
        a   == assess(tis, all)
    IN  [differences        |-> all,
         aggregate_tis      |-> tis,
         overall_assessment |-> a,
         confidence_overall |-> mean2(r1.confidence_overall,
                                      r2.confidence_overall),
         notes              |-> notes_for(a),
         angle_results      |-> <<r1, r2>>,
         angle_1_tis        |-> r1.aggregate_tis,
         angle_2_tis        |-> r2.aggregate_tis,
         angle_tis_min      |-> Min(r1.aggregate_tis, r2.aggregate_tis),
         angle_tis_max      |-> Max(r1.aggregate_tis, r2.aggregate_tis)]

(***************************************************************************)
(* The clients, before anything happened in them.                          *)
(***************************************************************************)
\* SolanaWalletConnect after its first render: no wallet is connected, the
\* effect has taken its else branch
WalletMounted ==
    [publicKey      |-> "null",
     address        |-> "null",
     isAuthorized   |-> FALSE,
     isCheckingAuth |-> FALSE,
     checks         |-> <<>>,
     disconnecting  |-> FALSE,
     toast          |-> "none"]

\* new SolanaService()
NewSolanaService ==
    [connection |-> "null", provider |-> "null", program |-> "null",
     network    |-> "devnet"]

\* SupabaseAuthProvider after its first render and its effect: checkSession
\* has called getSession.  signedOut is history: a signOut() has resolved
\* after a successful sign-out and no session was delivered since.
SupabaseAuthMounted ==
    [user       |-> "null",
     isLoading  |-> TRUE,
     checks     |-> <<"pending">>,
     signingOut |-> FALSE,
     signedOut  |-> FALSE]

\* user of AuthProvider: null
NoUser == [id |-> "null"]

\* AsyncStorage.getItem of a key that holds nothing: null
NoItem == <<>>

\* AuthProvider after its first render and its effect: loadAuth has issued
\* its two reads
AuthMounted ==
    [isAuthenticated |-> FALSE,
     user            |-> NoUser,
     isLoading       |-> TRUE,
     load            |-> "reading",
     logouts         |-> 0]

EmptyStorage == [token |-> "null", user |-> NoItem]

\* the app shows Index; nothing was submitted on LoginScreen
AppStarted == [route |-> "/", submitting |-> NoResult]

\* the pages of the dashboard that call solanaService.logEvent
LogCallers == {1, 2}

NoLogCall == [pc |-> "idle", batchId |-> "none", eventId |-> 0, event |-> <<>>]

\* the program after its initialize instruction
NewChain == [nextEventId |-> 0, events |-> {}]

(***************************************************************************)
(* The request.                                                            *)
(***************************************************************************)
ActiveAngles == IF mode = "dual" THEN {1, 2} ELSE {1}

ServerInit ==
    /\ mode \in {"single", "dual", "invalid"}
    /\ pc = [a \in Angles |-> IF a = 1 \/ mode = "dual" THEN "input" ELSE "off"]
    /\ resp = [a \in Angles |-> [m \in Models |-> "pending"]]
    /\ raw = [a \in Angles |-> [m \in Models |-> <<>>]]
    /\ arrival = [a \in Angles |-> <<>>]
    /\ timedOut = [a \in Angles |-> {}]
    /\ mergedAll = [a \in Angles |-> <<>>]
    /\ payload = [a \in Angles |-> NoResult]
    /\ vstate = [a \in Angles |-> "Pending"]
    /\ vraised = [a \in Angles |-> "none"]
    /\ repairCalls = [a \in Angles |-> 0]
    /\ validated = [a \in Angles |-> <<>>]
    /\ respInvalid = [a \in Angles |-> FALSE]
    /\ fb = [a \in Angles |-> "not_run"]
    /\ cvOut = [a \in Angles |-> <<>>]
    /\ result = [a \in Angles |-> NoResult]
    /\ error = [a \in Angles |-> "none"]
    /\ combined = NoResult
    /\ finished = <<>>

\* a request arrives; nothing has happened in the clients
Init ==
    /\ ServerInit
    /\ wallet = WalletMounted
    /\ solanaService = NewSolanaService
    /\ logCall = [c \in LogCallers |-> NoLogCall]
    /\ chain = NewChain
    /\ supabaseSession = "null"
    /\ supabaseAuth = SupabaseAuthMounted
    /\ auth = AuthMounted
    /\ storage = EmptyStorage
    /\ screen = AppStarted

\* request validation: missing image inputs are rejected before any analysis
CheckInput ==
    /\ pc[1] = "input"
    /\ IF mode = "invalid"
       THEN /\ pc' = [pc EXCEPT ![1] = "failed"]
            /\ error' = [error EXCEPT ![1] = "InputError"]
       ELSE /\ pc' = [a \in Angles |-> IF pc[a] = "input" THEN "ensemble" ELSE pc[a]]
            /\ UNCHANGED error
    /\ UNCHANGED <<mode, resp, raw, arrival, timedOut, mergedAll, payload, vstate, vraised,
                   repairCalls, validated, respInvalid, fb, cvOut, result, combined,
                   finished>>
    /\ UNCHANGED clientVars

\* one of the two model calls of angle a answers, or fails
ModelCall(a, m) ==
    /\ pc[a] = "ensemble"
    /\ resp[a][m] = "pending"
    /\ \/ /\ resp' = [resp EXCEPT ![a][m] = "failed"]
          /\ UNCHANGED raw
       \/ \E S \in Runs(Min(OutLimit, Len(ModelItems(m)))) :
            /\ resp' = [resp EXCEPT ![a][m] = "ok"]
            /\ raw' = [raw EXCEPT ![a][m] = PickFrom(ModelItems(m), S, 1)]
    /\ arrival' = [arrival EXCEPT ![a] = Append(@, m)]
    /\ UNCHANGED <<mode, pc, timedOut, mergedAll, payload, vstate, vraised, repairCalls,
                   validated, respInvalid, fb, cvOut, result, error, combined, finished>>
    /\ UNCHANGED clientVars

\* variant: the call to model m is made without a timeout
no_call_timeout(m) == FALSE

\* the call to model m is bounded by a per-call timeout
has_call_timeout(m) == TRUE

\* a model call that has not answered runs into its per-call timeout and is
\* treated as failed
CallTimeout(a, m) ==
    /\ pc[a] = "ensemble"
    /\ resp[a][m] = "pending"
    /\ has_call_timeout(m)
    /\ resp' = [resp EXCEPT ![a][m] = "failed"]
    /\ arrival' = [arrival EXCEPT ![a] = Append(@, m)]
    /\ timedOut' = [timedOut EXCEPT ![a] = @ \cup {m}]
    /\ UNCHANGED <<mode, pc, raw, mergedAll, payload, vstate, vraised, repairCalls,
                   validated, respInvalid, fb, cvOut, result, error, combined, finished>>
    /\ UNCHANGED clientVars

\* variant: the analysis fails as soon as one of the two calls failed
ensemble_outcome_any_failed(r1, r2) ==
    IF r1 = "failed" \/ r2 = "failed" THEN "ModelUnavailable" ELSE "ok"

\* the join of the two calls: a hard failure only when both failed
ensemble_outcome(r1, r2) ==
    IF r1 = "failed" /\ r2 = "failed" THEN "ModelUnavailable" ELSE "ok"

\* variant: the lists are merged in the order the calls completed
ensemble_lists_by_arrival(a) == <<raw[a][arrival[a][1]], raw[a][arrival[a][2]]>>

\* list1 and list2 of the merge: model 1's and model 2's lists, whichever
\* call completed first; a failed call contributes nothing
ensemble_lists(a) == <<raw[a][1], raw[a][2]>>

\* the body of an error response
error_response(message) ==
    [error              |-> message,
     differences        |-> <<>>,
     aggregate_tis      |-> 100,
     overall_assessment |-> "UNKNOWN"]

\* what /analyze answers for angle a: the error body or the result
response(a) == IF error[a] # "none" THEN error_response(error[a]) ELSE result[a]

\* both calls are back: fail when both failed, else merge and limit
EnsembleJoin(a) ==
    /\ pc[a] = "ensemble"
    /\ \A m \in Models : resp[a][m] # "pending"
    /\ IF ensemble_outcome(resp[a][1], resp[a][2]) = "ModelUnavailable"
       THEN /\ pc' = [pc EXCEPT ![a] = "failed"]
            /\ error' = [error EXCEPT ![a] = "ModelUnavailable"]
            /\ UNCHANGED <<mergedAll, payload>>
       ELSE /\ mergedAll' = [mergedAll EXCEPT ![a] =
                               merge(ensemble_lists(a)[1], ensemble_lists(a)[2])]
            /\ \E w \in BOOLEAN :
                 payload' = [payload EXCEPT ![a] =
                     [differences |-> limit(mergedAll'[a]), wellformed |-> w]]
            /\ pc' = [pc EXCEPT ![a] = "validate"]
            /\ UNCHANGED error
    /\ UNCHANGED <<mode, resp, raw, arrival, timedOut, vstate, vraised, repairCalls, validated,
                   respInvalid, fb, cvOut, result, combined,
                   finished>>
    /\ UNCHANGED clientVars

\* _validate_or_repair, up to the repair call; call_gemini_ensemble has
\* returned, its record of the completion order is gone
Validate(a) ==
    /\ pc[a] = "validate"
    /\ IF validate(payload[a])
       THEN /\ vstate' = [vstate EXCEPT ![a] = "Valid"]
            /\ validated' = [validated EXCEPT ![a] = payload[a].differences]
            /\ pc' = [pc EXCEPT ![a] = "analyze"]
            /\ UNCHANGED repairCalls
       ELSE /\ vstate' = [vstate EXCEPT ![a] = "RepairAttempted"]
            /\ repairCalls' = [repairCalls EXCEPT ![a] = @ + 1]
            /\ pc' = [pc EXCEPT ![a] = "repair"]
            /\ UNCHANGED validated
    /\ arrival' = [arrival EXCEPT ![a] = <<>>]
    /\ timedOut' = [timedOut EXCEPT ![a] = {}]
    /\ UNCHANGED <<mode, resp, raw, mergedAll, payload, vraised, respInvalid,
                   fb, cvOut, result, error, combined,
                   finished>>
    /\ UNCHANGED clientVars

\* the payloads a repair call can answer with
repaired_payloads(p) ==
    LET d == p.differences
    IN  {[differences |-> d, wellformed |-> TRUE],
         [differences |-> SubSeq(d, 1, Len(d) - 1), wellformed |-> TRUE],
         [differences |-> d, wellformed |-> FALSE]}

\* _validate_or_repair, from the repair call's return on
RepairReturn(a) ==
    /\ pc[a] = "repair"
    /\ \/ \* generate_content raises: the exception leaves the function
          /\ vstate' = [vstate EXCEPT ![a] = "Failed"]
          /\ vraised' = [vraised EXCEPT ![a] = "ModelError"]
          /\ pc' = [pc EXCEPT ![a] = "failed"]
          /\ error' = [error EXCEPT ![a] = "ServerError"]
          /\ UNCHANGED <<validated, respInvalid>>
       \/ \E repaired \in repaired_payloads(payload[a]) :
            IF validate(repaired)
            THEN /\ vstate' = [vstate EXCEPT ![a] = "Valid"]
                 /\ validated' = [validated EXCEPT ![a] = repaired.differences]
                 /\ pc' = [pc EXCEPT ![a] = "analyze"]
                 /\ UNCHANGED <<vraised, respInvalid, error>>
            ELSE \* the second validate raises ValidationError; the caller
                 \* logs it and goes on with {"differences": []}
                 /\ vstate' = [vstate EXCEPT ![a] = "Failed"]
                 /\ vraised' = [vraised EXCEPT ![a] = "ValidationError"]
                 /\ validated' = [validated EXCEPT ![a] = <<>>]
                 /\ respInvalid' = [respInvalid EXCEPT ![a] = TRUE]
                 /\ pc' = [pc EXCEPT ![a] = "analyze"]
                 /\ UNCHANGED error
    /\ UNCHANGED <<mode, resp, raw, arrival, timedOut, mergedAll, payload, repairCalls,
                   fb, cvOut, result, combined,
                   finished>>
    /\ UNCHANGED clientVars

\* variant: only low confidence triggers the fallback
fallback_triggered_low_only(a) == low_confidence(validated[a])

\* the classical CV fallback runs when confidence < 0.6 or response invalid
fallback_triggered(a) == respInvalid[a] \/ low_confidence(validated[a])

\* the ways the classical CV pipeline can be of no use: cv2 is None, or
\* align_and_normalize returns None
FallbackFailures == {"cv_unavailable", "align_failed"}

\* the fallback did not finish within its time bound
FallbackTimeout == {"timeout"}

\* variant: a failed fallback discards the low-confidence differences
skip_fallback_discard(differences) == <<>>

\* a fallback that is of no use adds no supplemental differences
skip_fallback(differences) == differences

\* rest of _analyze_pair: fallback if triggered, then TIS and assessment
\* (whether the order in which the angles return is recorded in finished is
\* said where the step is used)
AnalyzeRest(a) ==
    /\ pc[a] = "analyze"
    /\ IF fallback_triggered(a)
       THEN \/ \E why \in FallbackFailures \cup FallbackTimeout :
                 /\ fb' = [fb EXCEPT ![a] = why]
                 /\ result' = [result EXCEPT ![a] =
                        compute_overall(skip_fallback(validated[a]))]
                 /\ UNCHANGED cvOut
            \/ \E S \in SUBSET (1..Min(CvLimit, Len(CvItems))) :
                 /\ fb' = [fb EXCEPT ![a] = "ran"]
                 /\ cvOut' = [cvOut EXCEPT ![a] = PickFrom(CvItems, S, 1)]
                 /\ result' = [result EXCEPT ![a] =
                        compute_overall(merge_fallback(validated[a], cvOut'[a]))]
       ELSE /\ fb' = [fb EXCEPT ![a] = "not_triggered"]
            /\ result' = [result EXCEPT ![a] = compute_overall(validated[a])]
            /\ UNCHANGED cvOut
    /\ pc' = [pc EXCEPT ![a] = "done"]
    /\ UNCHANGED <<mode, resp, raw, arrival, timedOut, mergedAll, payload, vstate, vraised,
                   repairCalls, validated, respInvalid, error, combined>>
    /\ UNCHANGED clientVars

\* dual-angle: both angle results are in, build the combined response
Combine ==
    /\ mode = "dual"
    /\ combined = NoResult
    /\ \A a \in Angles : pc[a] = "done"
    /\ \E tis \in combined_tis(result[1], result[2],
                                tag_view(result[1].differences, "a1-", "angle_1")
                                \o tag_view(result[2].differences, "a2-", "angle_2")) :
         combined' = combine_angles(result[1], result[2], tis)
    /\ UNCHANGED <<mode, pc, resp, raw, arrival, timedOut, mergedAll, payload, vstate, vraised,
                   repairCalls, validated, respInvalid, fb, cvOut, result, error,
                   finished>>
    /\ UNCHANGED clientVars

Next ==
    \/ CheckInput
    \/ \E a \in ActiveAngles, m \in Models : ModelCall(a, m)
    \/ \E a \in ActiveAngles, m \in Models : CallTimeout(a, m)
    \/ \E a \in ActiveAngles : EnsembleJoin(a)
    \/ \E a \in ActiveAngles : Validate(a)
    \/ \E a \in ActiveAngles : RepairReturn(a)
    \/ \E a \in ActiveAngles : AnalyzeRest(a) /\ UNCHANGED finished
    \/ Combine

Spec == Init /\ [][Next]_vars

\* the same steps, with the order in which the angles return recorded
OrderNext ==
    \/ CheckInput
    \/ \E a \in ActiveAngles, m \in Models : ModelCall(a, m)
    \/ \E a \in ActiveAngles, m \in Models : CallTimeout(a, m)
    \/ \E a \in ActiveAngles : EnsembleJoin(a)
    \/ \E a \in ActiveAngles : Validate(a)
    \/ \E a \in ActiveAngles : RepairReturn(a)
    \/ \E a \in ActiveAngles : AnalyzeRest(a) /\ finished' = Append(finished, a)
    \/ Combine

OrderSpec == Init /\ [][OrderNext]_vars

\* The request handler runs every step it has started, and the repair call
\* returns or raises; an ensemble model call may stay silent for ever, only
\* its timeout is certain to come.
FairSpec ==
    /\ Spec
    /\ WF_vars(CheckInput)
    /\ \A a \in Angles, m \in Models : WF_vars(CallTimeout(a, m))
    /\ \A a \in Angles : WF_vars(EnsembleJoin(a))
    /\ \A a \in Angles : WF_vars(Validate(a))
    /\ \A a \in Angles : WF_vars(RepairReturn(a))

(***************************************************************************)
(* Cancellation by the caller.  The request can be cancelled at any point  *)
(* before its response is out: the pipelines stop where they are, and what *)
(* they had computed so far is not returned.                               *)
(***************************************************************************)
Cancelled == pc[1] = "cancelled"

\* the response of the request is out
RequestOver ==
    \/ Cancelled
    \/ \E a \in ActiveAngles : pc[a] = "failed"
    \/ mode # "dual" /\ pc[1] = "done"
    \/ combined # NoResult

\* variant: a cancelled request keeps the per-angle results it already has
on_cancel_keep(results) == results

\* a cancelled request returns no result, not a half-built one
on_cancel(results) == [a \in Angles |-> NoResult]

Cancel ==
    /\ ~RequestOver
    /\ pc' = [a \in Angles |-> IF a \in ActiveAngles THEN "cancelled" ELSE pc[a]]
    /\ result' = on_cancel(result)
    /\ UNCHANGED <<mode, resp, raw, arrival, timedOut, mergedAll, payload, vstate, vraised,
                   repairCalls, validated, respInvalid, fb, cvOut, error, combined,
                   finished>>
    /\ UNCHANGED clientVars

CancelNext ==
    \/ Next
    \/ Cancel

CancelSpec == Init /\ [][CancelNext]_vars


(***************************************************************************)
(* Web dashboard: the solanaService singleton (lib/solana.ts) and the      *)
(* SolanaWalletConnect component that initializes it.                      *)
(***************************************************************************)
PublicKeys == {"K1", "K2"}

InitOutcomes == {"ok", "provider_throws", "program_throws"}

\* SolanaService.initialize: the fields are assigned one after the other,
\* and a constructor that throws leaves the assignments made before it
initialize(svc, connection, k, network, outcome) ==
    LET s1 == [svc EXCEPT !.network = network, !.connection = connection]
        s2 == [s1 EXCEPT !.provider = k]
        s3 == [s2 EXCEPT !.program = k]
    IN  CASE outcome = "provider_throws" -> s1
          [] outcome = "program_throws"  -> s2
          [] OTHER                       -> s3

getConnection(svc) ==
    IF svc.connection = "null" THEN "throws" ELSE svc.connection

getProgram(svc) ==
    IF svc.program = "null" THEN "throws" ELSE svc.program

getProvider(svc) ==
    IF svc.provider = "null" THEN "throws" ELSE svc.provider

RemoveAt(seq, i) == SubSeq(seq, 1, i - 1) \o SubSeq(seq, i + 1, Len(seq))

\* useWallet() reports another publicKey and the effect runs again: with a
\* key it starts initializeService, which runs up to its await of
\* isUserAuthorized; without one it reports no address
WalletChange(k, outcome) ==
    /\ k # wallet.publicKey
    /\ IF k = "null"
       THEN /\ outcome = "ok"
            /\ wallet' = [wallet EXCEPT !.publicKey = k,
                                        !.address = "null",
                                        !.isAuthorized = FALSE]
            /\ UNCHANGED solanaService
       ELSE /\ solanaService' = initialize(solanaService, "connection", k, "devnet", outcome)
            /\ IF outcome = "ok"
               THEN /\ Len(wallet.checks) < MaxChecks
                    /\ wallet' = [wallet EXCEPT !.publicKey = k,
                                                !.address = k,
                                                !.isCheckingAuth = TRUE,
                                                !.checks = Append(@, k)]
               ELSE wallet' = [wallet EXCEPT !.publicKey = k,
                                             !.toast = "Connection Failed"]
    /\ UNCHANGED walletRest

\* isUserAuthorized answers for the publicKey the effect was started with;
\* it catches its own failures and answers false
AuthCheckReturn(i, authorized) ==
    /\ i \in 1..Len(wallet.checks)
    /\ wallet' = [wallet EXCEPT !.isAuthorized = authorized,
                                !.isCheckingAuth = FALSE,
                                !.checks = RemoveAt(@, i),
                                !.toast = "Solana Wallet Connected"]
    /\ UNCHANGED <<walletRest, solanaService>>

\* the Disconnect button, shown while a publicKey is there
HandleDisconnect ==
    /\ wallet.publicKey # "null"
    /\ ~wallet.disconnecting
    /\ wallet' = [wallet EXCEPT !.disconnecting = TRUE]
    /\ UNCHANGED <<walletRest, solanaService>>

\* disconnect() resolves, the publicKey is gone and handleDisconnect goes
\* on; or it rejects and handleDisconnect logs the error
DisconnectReturn(ok) ==
    /\ wallet.disconnecting
    /\ IF ok
       THEN wallet' = [wallet EXCEPT !.disconnecting = FALSE,
                                     !.publicKey = "null",
                                     !.address = "null",
                                     !.isAuthorized = FALSE,
                                     !.toast = "Wallet Disconnected"]
       ELSE wallet' = [wallet EXCEPT !.disconnecting = FALSE]
    /\ UNCHANGED <<walletRest, solanaService>>

WalletNext ==
    \/ \E k \in PublicKeys \cup {"null"}, outcome \in InitOutcomes : WalletChange(k, outcome)
    \/ \E i \in 1..MaxChecks, authorized \in BOOLEAN : AuthCheckReturn(i, authorized)
    \/ HandleDisconnect
    \/ \E ok \in BOOLEAN : DisconnectReturn(ok)

\* the analysis service is not part of the dashboard: one idle request
ClientInit == Init /\ mode = "single"

WalletSpec == ClientInit /\ [][WalletNext]_vars

(***************************************************************************)
(* Web dashboard: SolanaService.logEvent, called from several pages at a   *)
(* time, and the supply_chain_trust program that executes the transaction. *)
(***************************************************************************)
BatchIds == {"b1", "b2"}

getBatchPDA(batchId) == <<"batch", batchId>>

\* the address derived from the seeds "event", the batch account and the
\* event id written as 8 bytes
getEventPDA(batchPDA, eventId) == <<"event", batchPDA, eventId>>

\* log_event of the program: the event account is created under the id the
\* program state holds, and the id advances; a transaction for another
\* account fails
log_event(state, event, batchPDA) ==
    IF event = getEventPDA(batchPDA, state.nextEventId) /\ event \notin state.events
    THEN [nextEventId |-> state.nextEventId + 1, events |-> state.events \cup {event}]
    ELSE state

\* logEvent up to its first network call: the fetch of the program state
LogEventCall(c, batchId) ==
    /\ logCall[c].pc = "idle"
    /\ getProgram(solanaService) # "throws"
    /\ chain.nextEventId < MaxEventId
    /\ logCall' = [logCall EXCEPT ![c] = [NoLogCall EXCEPT !.pc = "fetching",
                                                          !.batchId = batchId]]
    /\ UNCHANGED <<logRest, chain>>

\* the program state arrives: the event id is read from it and the event
\* account derived; or the fetch fails and logEvent rejects
FetchReturn(c, ok) ==
    /\ logCall[c].pc = "fetching"
    /\ IF ok
       THEN logCall' = [logCall EXCEPT ![c] =
                [@ EXCEPT !.pc = "signing",
                          !.eventId = chain.nextEventId,
                          !.event = getEventPDA(getBatchPDA(logCall[c].batchId),
                                                chain.nextEventId)]]
       ELSE logCall' = [logCall EXCEPT ![c] = NoLogCall]
    /\ UNCHANGED <<logRest, chain>>

\* rpc(): the wallet signs and the transaction is submitted; or the wallet
\* refuses and logEvent rethrows
Submit(c, ok) ==
    /\ logCall[c].pc = "signing"
    /\ IF ok
       THEN logCall' = [logCall EXCEPT ![c].pc = "sent"]
       ELSE logCall' = [logCall EXCEPT ![c] = NoLogCall]
    /\ UNCHANGED <<logRest, chain>>

\* the transaction is executed, and logEvent returns its signature or
\* rethrows its failure
Land(c) ==
    /\ logCall[c].pc = "sent"
    /\ chain' = log_event(chain, logCall[c].event, getBatchPDA(logCall[c].batchId))
    /\ logCall' = [logCall EXCEPT ![c] = NoLogCall]
    /\ UNCHANGED logRest

LogNext ==
    \/ \E c \in LogCallers, batchId \in BatchIds : LogEventCall(c, batchId)
    \/ \E c \in LogCallers, ok \in BOOLEAN : FetchReturn(c, ok)
    \/ \E c \in LogCallers, ok \in BOOLEAN : Submit(c, ok)
    \/ \E c \in LogCallers : Land(c)

\* a wallet is connected and the service initialized for it
LogInit ==
    /\ ServerInit
    /\ mode = "single"
    /\ wallet = [WalletMounted EXCEPT !.publicKey = "K1", !.address = "K1",
                                      !.isAuthorized = TRUE,
                                      !.toast = "Solana Wallet Connected"]
    /\ solanaService = initialize(NewSolanaService, "connection", "K1", "devnet", "ok")
    /\ logCall = [c \in LogCallers |-> NoLogCall]
    /\ chain = NewChain
    /\ supabaseSession = "null"
    /\ supabaseAuth = SupabaseAuthMounted
    /\ auth = AuthMounted
    /\ storage = EmptyStorage
    /\ screen = AppStarted

LogSpec == LogInit /\ [][LogNext]_vars

(***************************************************************************)
(* Web dashboard: SupabaseAuthProvider and the session the supabase client *)
(* holds.  A getSession call reads the session at some moment after it was *)
(* issued, and its answer reaches checkSession at a later one.             *)
(***************************************************************************)
Users == {"u1", "u2"}

\* useEffect on mount; checkSession is also handed out through the context
CheckSession ==
    /\ Len(supabaseAuth.checks) < MaxSessionChecks
    /\ supabaseAuth' = [supabaseAuth EXCEPT !.isLoading = TRUE,
                                            !.checks = Append(@, "pending")]
    /\ UNCHANGED <<supaRest, supabaseSession>>

\* supabase.auth.getSession() looks the session up, or fails
GetSessionRead(i, ok) ==
    /\ i \in 1..Len(supabaseAuth.checks)
    /\ supabaseAuth.checks[i] = "pending"
    /\ supabaseAuth' = [supabaseAuth EXCEPT !.checks[i] =
                            IF ok THEN supabaseSession ELSE "error"]
    /\ UNCHANGED <<supaRest, supabaseSession>>

\* the answer of getSession reaches checkSession
GetSessionReturn(i) ==
    /\ i \in 1..Len(supabaseAuth.checks)
    /\ supabaseAuth.checks[i] # "pending"
    /\ supabaseAuth' = [supabaseAuth EXCEPT
            !.user = IF supabaseAuth.checks[i] = "error" THEN "null"
                     ELSE supabaseAuth.checks[i],
            !.isLoading = FALSE,
            !.checks = RemoveAt(@, i)]
    /\ UNCHANGED <<supaRest, supabaseSession>>

\* the listener registered with supabase.auth.onAuthStateChange: a sign-in,
\* a refreshed token, or a sign-out in another tab
AuthStateChange(s) ==
    /\ supabaseSession' = s
    /\ supabaseAuth' = [supabaseAuth EXCEPT
            !.user = s,
            !.isLoading = FALSE,
            !.signedOut = IF s # "null" THEN FALSE ELSE @]
    /\ UNCHANGED supaRest

SignOut ==
    /\ ~supabaseAuth.signingOut
    /\ supabaseAuth' = [supabaseAuth EXCEPT !.signingOut = TRUE]
    /\ UNCHANGED <<supaRest, supabaseSession>>

\* supabase.auth.signOut() resolves: the session is gone, the listener and
\* signOut both set the user to null; or it throws and signOut logs it
SignOutReturn(ok) ==
    /\ supabaseAuth.signingOut
    /\ IF ok
       THEN /\ supabaseSession' = "null"
            /\ supabaseAuth' = [supabaseAuth EXCEPT !.signingOut = FALSE,
                                                    !.user = "null",
                                                    !.isLoading = FALSE,
                                                    !.signedOut = TRUE]
       ELSE /\ supabaseAuth' = [supabaseAuth EXCEPT !.signingOut = FALSE]
            /\ UNCHANGED supabaseSession
    /\ UNCHANGED supaRest

\* isAuthenticated: !!user
isAuthenticated(user) == user # "null"

SupabaseNext ==
    \/ CheckSession
    \/ \E i \in 1..MaxSessionChecks, ok \in BOOLEAN : GetSessionRead(i, ok)
    \/ \E i \in 1..MaxSessionChecks : GetSessionReturn(i)
    \/ \E s \in Users \cup {"null"} : AuthStateChange(s)
    \/ SignOut
    \/ \E ok \in BOOLEAN : SignOutReturn(ok)

\* the provider mounts with or without a session stored by the client
SupabaseInit ==
    /\ ServerInit
    /\ mode = "single"
    /\ wallet = WalletMounted
    /\ solanaService = NewSolanaService
    /\ logCall = [c \in LogCallers |-> NoLogCall]
    /\ chain = NewChain
    /\ supabaseSession \in Users \cup {"null"}
    /\ supabaseAuth = SupabaseAuthMounted
    /\ auth = AuthMounted
    /\ storage = EmptyStorage
    /\ screen = AppStarted

SupabaseSpec == SupabaseInit /\ [][SupabaseNext]_vars

(***************************************************************************)
(* Mobile app: AuthProvider (contexts/AuthContext.tsx) over AsyncStorage,  *)
(* the Index route that waits for it, and LoginScreen.                     *)
(***************************************************************************)
UserRoles == {"MANUFACTURER", "DISTRIBUTOR", "WAREHOUSE", "DELIVERY_PERSON"}

\* what is typed into the form: an address is its part before the @ and its
\* part after it
Emails == {[local |-> "ann", domain |-> "gmail.com"],
           [local |-> "Bob", domain |-> "gmail.com"]}

FullNames == {"Bob", "Ann Lee"}

toLowerCase(str) == IF str = "Bob" THEN "bob" ELSE str

\* login: the user is made from the e-mail address alone
newUser(email) ==
    [id    |-> "user_now",
     email |-> [local |-> toLowerCase(email.local), domain |-> email.domain],
     role  |-> "WAREHOUSE",
     name  |-> email.local]

JSON_stringify(u) == <<u.id, u.email.local, u.email.domain, u.role, u.name>>

JSON_parse(str) ==
    [id    |-> str[1],
     email |-> [local |-> str[2], domain |-> str[3]],
     role  |-> str[4],
     name  |-> str[5]]

\* Promise.all over the two storage calls: each of them succeeds or rejects
\* on its own
StorageOutcomes == {"ok", "first_rejects", "second_rejects", "both_reject"}

setItems(st, token, userData, outcome) ==
    [token |-> IF outcome \in {"ok", "second_rejects"} THEN token ELSE st.token,
     user  |-> IF outcome \in {"ok", "first_rejects"} THEN userData ELSE st.user]

removeItems(st, outcome) ==
    [token |-> IF outcome \in {"ok", "second_rejects"} THEN "null" ELSE st.token,
     user  |-> IF outcome \in {"ok", "first_rejects"} THEN NoItem ELSE st.user]

\* variant: clearAuth forgets the user and leaves isAuthenticated alone
clearAuth_user_only(a) == [a EXCEPT !.user = NoUser]

\* clearAuth after its removals: setUser(null); setIsAuthenticated(false)
clearAuth_state(a) == [a EXCEPT !.user = NoUser, !.isAuthenticated = FALSE]

\* variant: loadAuth without its finally block
no_finally_block(a) == a

\* the finally block of loadAuth
finally_block(a) == [a EXCEPT !.isLoading = FALSE]

\* loadAuth: the two reads resolve, or one of them rejects and clearAuth is
\* called from the catch block
LoadReadsReturn(ok) ==
    /\ auth.load = "reading"
    /\ IF ok
       THEN IF storage.token # "null" /\ storage.user # NoItem
            THEN auth' = finally_block([auth EXCEPT !.user = JSON_parse(storage.user),
                                                    !.isAuthenticated = TRUE,
                                                    !.load = "done"])
            ELSE auth' = finally_block([auth EXCEPT !.load = "done"])
       ELSE auth' = [auth EXCEPT !.load = "clearing"]
    /\ UNCHANGED <<mobileRest, storage, screen>>

\* clearAuth called by loadAuth: the removals resolve, or one rejects and
\* the rejection leaves loadAuth through its finally block
LoadClearReturn(outcome) ==
    /\ auth.load = "clearing"
    /\ storage' = removeItems(storage, outcome)
    /\ IF outcome = "ok"
       THEN auth' = finally_block([clearAuth_state(auth) EXCEPT !.load = "done"])
       ELSE auth' = finally_block([auth EXCEPT !.load = "failed"])
    /\ UNCHANGED <<mobileRest, screen>>

\* LoginScreen.handleLogin with a valid form, up to the await of login
HandleLogin(email, fullName, selectedRole) ==
    /\ screen.route = "/login"
    /\ screen.submitting = NoResult
    /\ screen' = [screen EXCEPT !.submitting =
                      [email |-> email, fullName |-> fullName,
                       selectedRole |-> selectedRole]]
    /\ UNCHANGED <<mobileRest, auth, storage>>

\* login after its writes: the user is set and handleLogin goes to the scan
\* tab; or a write rejected, login rethrows and handleLogin logs it
LoginReturn(outcome) ==
    /\ screen.submitting # NoResult
    /\ storage' = setItems(storage, "demo_token",
                           JSON_stringify(newUser(screen.submitting.email)), outcome)
    /\ IF outcome = "ok"
       THEN /\ auth' = [auth EXCEPT !.user = newUser(screen.submitting.email),
                                    !.isAuthenticated = TRUE]
            /\ screen' = [screen EXCEPT !.submitting = NoResult,
                                        !.route = "/(tabs)/scan"]
       ELSE /\ screen' = [screen EXCEPT !.submitting = NoResult]
            /\ UNCHANGED auth
    /\ UNCHANGED mobileRest

Logout ==
    /\ screen.route # "/"
    /\ auth.logouts < MaxLogouts
    /\ auth' = [auth EXCEPT !.logouts = @ + 1]
    /\ UNCHANGED <<mobileRest, storage, screen>>

\* clearAuth called by logout: the removals resolve, or logout rejects
LogoutReturn(outcome) ==
    /\ auth.logouts > 0
    /\ storage' = removeItems(storage, outcome)
    /\ IF outcome = "ok"
       THEN auth' = [clearAuth_state(auth) EXCEPT !.logouts = @ - 1]
       ELSE auth' = [auth EXCEPT !.logouts = @ - 1]
    /\ UNCHANGED <<mobileRest, screen>>

\* Index renders nothing while isLoading, then a Redirect
IndexRender ==
    /\ screen.route = "/"
    /\ ~auth.isLoading
    /\ screen' = [screen EXCEPT !.route =
                      IF auth.isAuthenticated THEN "/(tabs)/scan" ELSE "/login"]
    /\ UNCHANGED <<mobileRest, auth, storage>>

\* the user moves between the login screen and the tabs
Navigate(href) ==
    /\ screen.route # "/"
    /\ href # screen.route
    /\ screen' = [screen EXCEPT !.route = href]
    /\ UNCHANGED <<mobileRest, auth, storage>>

MobileNext ==
    \/ \E ok \in BOOLEAN : LoadReadsReturn(ok)
    \/ \E outcome \in StorageOutcomes : LoadClearReturn(outcome)
    \/ \E email \in Emails, fullName \in FullNames, selectedRole \in UserRoles :
         HandleLogin(email, fullName, selectedRole)
    \/ \E outcome \in StorageOutcomes : LoginReturn(outcome)
    \/ Logout
    \/ \E outcome \in StorageOutcomes : LogoutReturn(outcome)
    \/ IndexRender
    \/ \E href \in {"/login", "/(tabs)/scan"} : Navigate(href)

\* the app starts: AuthProvider mounts and calls loadAuth; the storage holds
\* what earlier runs of the app left
MobileInit ==
    /\ ServerInit
    /\ mode = "single"
    /\ wallet = WalletMounted
    /\ solanaService = NewSolanaService
    /\ logCall = [c \in LogCallers |-> NoLogCall]
    /\ chain = NewChain
    /\ supabaseSession = "null"
    /\ supabaseAuth = SupabaseAuthMounted
    /\ auth = AuthMounted
    /\ storage \in [token : {"null", "demo_token"},
                    user  : {NoItem} \cup {JSON_stringify(newUser(e)) : e \in Emails}]
    /\ screen = AppStarted

MobileSpec == MobileInit /\ [][MobileNext]_vars

\* AsyncStorage settles the calls of loadAuth, and React renders Index
MobileFairSpec ==
    /\ MobileSpec
    /\ WF_vars(\E ok \in BOOLEAN : LoadReadsReturn(ok))
    /\ WF_vars(\E outcome \in StorageOutcomes : LoadClearReturn(outcome))
    /\ WF_vars(IndexRender)

(***************************************************************************)
(* Properties.                                                             *)
(***************************************************************************)
Key(d) == <<d.region, d.type>>

Returned(a) == result[a] # NoResult

Clamp(x, lo, hi) == IF x < lo THEN lo ELSE IF x > hi THEN hi ELSE x

RECURSIVE DeltaSumUpTo(_, _)
\* sum of the tis_delta of the first n entries of D
DeltaSumUpTo(D, n) ==
    IF n = 0 THEN 0 ELSE D[n].tis_delta + DeltaSumUpTo(D, n - 1)

DeltaSum(D) == DeltaSumUpTo(D, Len(D))

HasCriticalType(D) ==
    \E i \in 1..Len(D) :
        D[i].type \in {"seal_tamper", "repackaging", "digital_edit"}

\* C1: the aggregate_tis of every returned angle result is
\* clamp(100 + sum of the tis_delta of its differences, 0, 100), an integer
\* in [0,100], and 100 for the empty list.
C1_AggregateTisIsClampedSum ==
    \A a \in Angles :
        Returned(a) =>
            LET r == result[a]
            IN  /\ r.aggregate_tis = Clamp(100 + DeltaSum(r.differences), 0, 100)
                /\ r.aggregate_tis \in 0..100
                /\ (r.differences = <<>> => r.aggregate_tis = 100)

\* C1 witness: a returned result whose deltas sum below -100, clamped to 0.
C1_Witness ==
    \E a \in Angles :
        /\ Returned(a)
        /\ 100 + DeltaSum(result[a].differences) < 0
        /\ result[a].aggregate_tis = 0

\* C2: a returned angle result whose differences contain seal_tamper,
\* repackaging or digital_edit is HIGH_RISK whatever its aggregate_tis.
C2_CriticalOverride ==
    \A a \in Angles :
        (Returned(a) /\ HasCriticalType(result[a].differences))
            => result[a].overall_assessment = "HIGH_RISK"

\* C2 witness: a single seal_tamper: aggregate_tis 60, yet HIGH_RISK.
C2_Witness ==
    \E a \in Angles :
        /\ Returned(a)
        /\ Len(result[a].differences) = 1
        /\ result[a].differences[1].type = "seal_tamper"
        /\ result[a].aggregate_tis = 60
        /\ result[a].overall_assessment = "HIGH_RISK"

\* C3: without a critical type the assessment is SAFE exactly when
\* aggregate_tis >= 80, MODERATE_RISK exactly when 40 <= aggregate_tis < 80,
\* HIGH_RISK exactly when aggregate_tis < 40; the empty list gives 100 and
\* SAFE; a returned result is never UNKNOWN.
C3_ThresholdAssessment ==
    \A a \in Angles :
        Returned(a) =>
            LET r == result[a]
                t == r.aggregate_tis
            IN  /\ r.overall_assessment # "UNKNOWN"
                /\ ~HasCriticalType(r.differences) =>
                     /\ (r.overall_assessment = "SAFE") <=> (t >= 80)
                     /\ (r.overall_assessment = "MODERATE_RISK")
                            <=> (40 <= t /\ t < 80)
                     /\ (r.overall_assessment = "HIGH_RISK") <=> (t < 40)
                /\ r.differences = <<>> =>
                     (t = 100 /\ r.overall_assessment = "SAFE")

\* C3 witness: a non-critical list exactly on the 80 boundary, assessed SAFE.
C3_Witness ==
    \E a \in Angles :
        /\ Returned(a)
        /\ result[a].differences # <<>>
        /\ ~HasCriticalType(result[a].differences)
        /\ result[a].aggregate_tis = 80
        /\ result[a].overall_assessment = "SAFE"

\* the ensemble has just been joined: list1, list2, the merged list and the
\* payload are set here and assigned nowhere else
Joined(a) == pc[a] = "validate"

\* position of the first entry of L carrying key k
FirstIndex(L, k) ==
    CHOOSE i \in 1..Len(L) :
        Key(L[i]) = k /\ \A j \in 1..(i - 1) : Key(L[j]) # k

\* C4: the merged list holds exactly one entry per (region, type) key of
\* list1 + list2, each the first occurrence of its key in list1 + list2,
\* in the order of those first occurrences.
C4_MergeKeepsFirstOccurrence ==
    \A a \in Angles :
        Joined(a) =>
            LET L == raw[a][1] \o raw[a][2]
                M == mergedAll[a]
            IN  /\ \A i, j \in 1..Len(M) : i # j => Key(M[i]) # Key(M[j])
                /\ {Key(M[i]) : i \in 1..Len(M)} = {Key(L[i]) : i \in 1..Len(L)}
                /\ \A i \in 1..Len(M) : M[i] = L[FirstIndex(L, Key(M[i]))]
                /\ \A i, j \in 1..Len(M) :
                     i < j => FirstIndex(L, Key(M[i])) < FirstIndex(L, Key(M[j]))

\* C4 witness: both lists carry the same key with different contents and the
\* merged list keeps the first list's entry.
C4_Witness ==
    \E a \in Angles :
        /\ Joined(a)
        /\ \E i \in 1..Len(raw[a][1]), j \in 1..Len(raw[a][2]) :
             /\ Key(raw[a][1][i]) = Key(raw[a][2][j])
             /\ raw[a][1][i] # raw[a][2][j]
             /\ \E k \in 1..Len(mergedAll[a]) : mergedAll[a][k] = raw[a][1][i]

\* C5: the payload after the ensemble merge has at most 8 differences, and
\* when the de-duplicated merge has more than 8 it is exactly its first 8
\* entries in the same order.
C5_MergeLimitedToEight ==
    \A a \in Angles :
        Joined(a) =>
            LET M == mergedAll[a]
                P == payload[a].differences
            IN  /\ Len(P) <= 8
                /\ Len(M) > 8 =>
                     (Len(P) = 8 /\ \A i \in 1..8 : P[i] = M[i])
                /\ Len(M) <= 8 => P = M

\* C5 witness: a de-duplicated merge of more than 8 entries, cut to 8.
C5_Witness ==
    \E a \in Angles :
        /\ Joined(a)
        /\ Len(mergedAll[a]) > 8
        /\ Len(payload[a].differences) = 8

\* C6: the differences of every returned AnalysisResult number at most 8,
\* also after the CV fallback has merged entries into a full ensemble list.
C6_ResultAtMostEight ==
    \A a \in Angles : Returned(a) => Len(result[a].differences) <= 8

\* C7: schema validation never raises: when validation and the one repair
\* both fail (or the repair call fails) the validator hands back the empty
\* difference list as data and no exception leaves it.
C7_ValidatorNeverRaises ==
    \A a \in Angles :
        vstate[a] = "Failed" => (vraised[a] = "none" /\ validated[a] = <<>>)

\* C8: the combined aggregate_tis of a dual-angle result is the minimum of
\* the two per-angle aggregate_tis values, and angle_tis_min is that value.
C8_CombinedTisIsMin ==
    combined # NoResult =>
        /\ combined.aggregate_tis =
               Min(result[1].aggregate_tis, result[2].aggregate_tis)
        /\ combined.angle_tis_min = combined.aggregate_tis

Severity(assessment) ==
    CASE assessment = "SAFE"          -> 0
      [] assessment = "MODERATE_RISK" -> 1
      [] assessment = "HIGH_RISK"     -> 2
      [] OTHER                        -> 3

RECURSIVE TableDeltaSumUpTo(_, _)
\* sum of the taxonomy-table deltas of the types of the first n entries of D
TableDeltaSumUpTo(D, n) ==
    IF n = 0 THEN 0
    ELSE TisDeltaTable(D[n].type) + TableDeltaSumUpTo(D, n - 1)

\* C10: every difference of a returned result carries the taxonomy-table
\* tis_delta and severity of its type, so aggregate_tis depends on the
\* types alone and not on the tis_delta / severity the model wrote.
C10_ScoresAreTableDriven ==
    \A a \in Angles :
        Returned(a) =>
            LET D == result[a].differences
            IN  /\ \A i \in 1..Len(D) :
                     /\ D[i].tis_delta = TisDeltaTable(D[i].type)
                     /\ D[i].severity = SeverityTable(D[i].type)
                /\ result[a].aggregate_tis =
                       Clamp(100 + TableDeltaSumUpTo(D, Len(D)), 0, 100)

InSeq(x, L) == \E i \in 1..Len(L) : L[i] = x

Keys(L) == {Key(L[i]) : i \in 1..Len(L)}

NumFailed(a) == Cardinality({m \in Models : resp[a][m] = "failed"})

\* the ensemble of angle a is over, one way or the other
EnsembleOver(a) == pc[a] \notin {"off", "input", "ensemble"} /\ error[a] # "InputError"

\* C11: when both model calls failed the analysis ends in ModelUnavailable,
\* answered with overall_assessment UNKNOWN and no populated result; when
\* exactly one failed the analysis goes on without ModelUnavailable, the
\* merged list is the successful call's list de-duplicated, and a returned
\* result holds only entries of that call (and of the CV fallback).
C11_EnsembleCallFailures ==
    \A a \in Angles :
        /\ (EnsembleOver(a) /\ NumFailed(a) = 2) =>
              /\ error[a] = "ModelUnavailable"
              /\ result[a] = NoResult
              /\ response(a).overall_assessment = "UNKNOWN"
              /\ response(a).differences = <<>>
        /\ (EnsembleOver(a) /\ NumFailed(a) = 1) =>
              LET ok == CHOOSE m \in Models : resp[a][m] = "ok"
              IN  /\ error[a] # "ModelUnavailable"
                  /\ Joined(a) =>
                        /\ \A i \in 1..Len(mergedAll[a]) :
                              InSeq(mergedAll[a][i], raw[a][ok])
                        /\ Keys(mergedAll[a]) = Keys(raw[a][ok])
                  /\ Returned(a) =>
                        \A i \in 1..Len(result[a].differences) :
                            \/ InSeq(result[a].differences[i], raw[a][ok])
                            \/ InSeq(result[a].differences[i], CvItems)

\* C11 witness: model 1 failed, model 2 answered, and a result holding
\* model 2's entries was returned.
C11_Witness ==
    \E a \in Angles :
        /\ resp[a][1] = "failed"
        /\ resp[a][2] = "ok"
        /\ Returned(a)
        /\ Len(result[a].differences) >= 2
        /\ \A i \in 1..Len(result[a].differences) :
              InSeq(result[a].differences[i], raw[a][2])

\* C12: every analysis ends with a returned result or with one of exactly
\* two failures, InputError or ModelUnavailable; a schema failure or a
\* fallback failure never ends the analysis as a failure.
C12_OnlyInputErrorOrModelUnavailable ==
    \A a \in Angles :
        /\ error[a] \in {"none", "InputError", "ModelUnavailable"}
        /\ pc[a] = "done" => (Returned(a) /\ error[a] = "none")
        /\ pc[a] = "failed" =>
              (result[a] = NoResult /\ error[a] \in {"InputError", "ModelUnavailable"})

RECURSIVE ConfSumUpTo(_, _)
\* sum of the confidences (hundredths) of the first n entries of D
ConfSumUpTo(D, n) ==
    IF n = 0 THEN 0 ELSE D[n].confidence + ConfSumUpTo(D, n - 1)

ConfSum(D) == ConfSumUpTo(D, Len(D))

FallbackFailed(a) == fb[a] \in {"cv_unavailable", "align_failed", "timeout"}

\* C13: when the fallback was triggered but was unavailable, failed to align
\* or timed out, the analysis still returns a result, its differences are
\* exactly the validated ensemble differences (the ensemble payload itself
\* when no repair was needed), and a non-empty list keeps its low mean as
\* confidence_overall.
C13_FailedFallbackKeepsDifferences ==
    \A a \in Angles :
        FallbackFailed(a) =>
            /\ pc[a] = "done"
            /\ Returned(a)
            /\ result[a].differences = validated[a]
            /\ (vstate[a] = "Valid" /\ repairCalls[a] = 0) =>
                  result[a].differences = payload[a].differences
            /\ validated[a] # <<>> =>
                  /\ result[a].confidence_overall.num * Len(validated[a])
                        = ConfSum(validated[a]) * result[a].confidence_overall.den
                  /\ ConfSum(validated[a]) < 60 * Len(validated[a])

\* C13 witness: ensemble differences of mean confidence 0.4 with the CV
\* fallback unavailable, returned intact with confidence_overall 0.4.
C13_Witness ==
    \E a \in Angles :
        /\ fb[a] = "cv_unavailable"
        /\ Returned(a)
        /\ Len(result[a].differences) >= 2
        /\ result[a].differences = payload[a].differences
        /\ result[a].confidence_overall.num = 40 * result[a].confidence_overall.den

UniqueIds(D) == \A i, j \in 1..Len(D) : i # j => D[i].id # D[j].id

\* C14: within a returned result no two differences have the same id: after
\* the merge of two model outputs that reuse ids for different (region,
\* type) keys, after fallback entries are appended, and in the combined
\* list of a dual-angle result.
C14_IdsUnique ==
    /\ \A a \in Angles : Returned(a) => UniqueIds(result[a].differences)
    /\ combined # NoResult => UniqueIds(combined.differences)

\* the fraction c is the mean of the confidences of D, 1.0 for the empty list
IsMeanOf(c, D) ==
    IF D = <<>> THEN c.num = 100 * c.den
    ELSE c.num * Len(D) = ConfSum(D) * c.den

ValidatorTransitions ==
    {<<"Pending", "Valid">>, <<"Pending", "RepairAttempted">>,
     <<"RepairAttempted", "Valid">>, <<"RepairAttempted", "Failed">>}

\* C16: the validator issues at most one repair call per payload and none
\* when the first validation succeeds, a valid payload being returned
\* unchanged; every run goes Pending -> Valid or Pending -> RepairAttempted
\* -> Valid|Failed, never re-enters RepairAttempted, and always terminates.
C16_AtMostOneRepair ==
    /\ [](\A a \in Angles :
            /\ repairCalls[a] <= 1
            /\ vstate[a] \in {"Pending", "RepairAttempted", "Valid", "Failed"}
            /\ vstate[a] = "Pending" => repairCalls[a] = 0
            /\ (payload[a] # NoResult /\ pc[a] # "validate" /\ payload[a].wellformed) =>
                  /\ repairCalls[a] = 0
                  /\ vstate[a] = "Valid"
                  /\ validated[a] = payload[a].differences)
    /\ [][\A a \in Angles :
            /\ vstate'[a] # vstate[a] => <<vstate[a], vstate'[a]>> \in ValidatorTransitions
            /\ repairCalls'[a] # repairCalls[a] =>
                  (vstate[a] = "Pending" /\ vstate'[a] = "RepairAttempted")]_vars
    /\ \A a \in Angles : (pc[a] = "validate") ~> (vstate[a] \in {"Valid", "Failed"})

\* C16 witness: one repair call was issued and the repaired payload, not the
\* original one, was accepted.
C16_Witness ==
    \E a \in Angles :
        /\ vstate[a] = "Valid"
        /\ repairCalls[a] = 1
        /\ validated[a] # payload[a].differences

\* C17: the fallback merge is supplemental: every ensemble entry keeps its
\* position and content, the entry of a (region, type) key the ensemble list
\* already holds stays the ensemble's, and every fallback entry that is
\* kept comes after all ensemble entries.
C17_FallbackIsSupplemental ==
    \A a \in Angles :
        (fb[a] = "ran" /\ Returned(a)) =>
            LET E == validated[a]
                R == result[a].differences
            IN  /\ Len(R) >= Len(E)
                /\ \A i \in 1..Len(E) : R[i] = E[i]
                /\ \A i \in 1..Len(R) : Key(R[i]) \in Keys(E) => i <= Len(E)
                /\ \A i \in (Len(E) + 1)..Len(R) :
                      /\ InSeq(R[i], cvOut[a])
                      /\ Key(R[i]) \notin Keys(E)

\* C17 witness: the fallback proposed a key the ensemble list already held
\* and a new one; the ensemble's entry stayed, the new one was appended.
C17_Witness ==
    \E a \in Angles :
        /\ fb[a] = "ran"
        /\ Returned(a)
        /\ Len(validated[a]) >= 2
        /\ \E j \in 1..Len(cvOut[a]) : Key(cvOut[a][j]) \in Keys(validated[a])
        /\ Len(result[a].differences) = Len(validated[a]) + 1
        /\ InSeq(result[a].differences[Len(result[a].differences)], cvOut[a])

\* the fallback detector was called upon, whatever came of it
FallbackInvoked(a) == fb[a] \in {"ran", "cv_unavailable", "align_failed", "timeout"}

\* C18: the classical fallback is invoked whenever the validated ensemble
\* output has mean confidence below 0.6 or the validation ended with the
\* empty list in place of an invalid response, and is never invoked when the
\* validated list is non-empty with mean confidence >= 0.6.
C18_FallbackTrigger ==
    \A a \in Angles :
        pc[a] = "done" =>
            LET V == validated[a]
            IN  /\ (V # <<>> /\ ConfSum(V) < 60 * Len(V)) => FallbackInvoked(a)
                /\ (vstate[a] = "Failed" /\ V = <<>>) => FallbackInvoked(a)
                /\ (V # <<>> /\ ConfSum(V) >= 60 * Len(V)) => fb[a] = "not_triggered"

\* C18 witness: the repair failed, the validated list is empty, and the
\* fallback ran and supplied the differences of the result.
C18_Witness ==
    \E a \in Angles :
        /\ pc[a] = "done"
        /\ vstate[a] = "Failed"
        /\ validated[a] = <<>>
        /\ fb[a] = "ran"
        /\ result[a].differences # <<>>

RECURSIVE FirstOccurrencesFrom(_, _)
\* the entries of L from position i on that are the first of their key in L
FirstOccurrencesFrom(L, i) ==
    IF i > Len(L) THEN <<>>
    ELSE (IF \A j \in 1..(i - 1) : Key(L[j]) # Key(L[i]) THEN <<L[i]>> ELSE <<>>)
         \o FirstOccurrencesFrom(L, i + 1)

\* C19: the merged list does not depend on which of the two model calls
\* completed first: it is determined by the two outputs alone (model 1's
\* list, then model 2's, first occurrence per key), so every entry of
\* model 1's list precedes every entry that only model 2 supplied.
C19_MergeOrderIgnoresArrival ==
    \A a \in Angles :
        (Joined(a) /\ Len(arrival[a]) = 2) =>
            LET M == mergedAll[a]
            IN  /\ M = FirstOccurrencesFrom(raw[a][1] \o raw[a][2], 1)
                /\ \A i, j \in 1..Len(M) :
                      (InSeq(M[i], raw[a][1]) /\ ~InSeq(M[j], raw[a][1])) => i < j

\* C19 witness: model 2's call completed first, both calls supplied entries,
\* and the merged list still starts with model 1's entries.
C19_Witness ==
    \E a \in Angles :
        /\ Joined(a)
        /\ arrival[a] = <<2, 1>>
        /\ Len(raw[a][1]) >= 2
        /\ Len(raw[a][2]) >= 2
        /\ mergedAll[a][1] = raw[a][1][1]
        /\ mergedAll[a][Len(mergedAll[a])] = raw[a][2][Len(raw[a][2])]
        /\ ~InSeq(mergedAll[a][Len(mergedAll[a])], raw[a][1])

\* C20: when a model call of the ensemble never responds, the join still
\* completes: the silent call is marked failed once its timeout expires, no
\* call is left pending after the join, and the analysis goes on with the
\* other call's output or ends in ModelUnavailable when that one failed too.
C20_JoinCompletesDespiteSilentCall ==
    /\ \A a \in Angles : (pc[a] = "ensemble") ~> (pc[a] \in {"validate", "failed"})
    /\ [](\A a \in Angles :
            /\ \A m \in timedOut[a] : resp[a][m] = "failed"
            /\ EnsembleOver(a) => \A m \in Models : resp[a][m] # "pending"
            /\ (EnsembleOver(a) /\ timedOut[a] = Models) => error[a] = "ModelUnavailable"
            /\ (Joined(a) /\ timedOut[a] # {} /\ timedOut[a] # Models) =>
                  (\E m \in Models \ timedOut[a] :
                       resp[a][m] = "failed" \/ mergedAll[a] = FirstOccurrencesFrom(raw[a][m], 1)))

\* C20 witness: model 1's call ran into its timeout, model 2 answered, and
\* the join completed with model 2's entries.
C20_Witness ==
    \E a \in Angles :
        /\ timedOut[a] = {1}
        /\ resp[a][2] = "ok"
        /\ Joined(a)
        /\ Len(payload[a].differences) >= 2
        /\ payload[a].differences = raw[a][2]

(***************************************************************************)
(* C21: in dual-angle mode the MultiAngleResult is produced only after    *)
(* both angle pipelines have finished, whichever finished first; it is    *)
(* built from the two final per-angle results, which do not change once   *)
(* returned, and never from an angle whose analysis is still running.     *)
(***************************************************************************)
C21_CombinedAfterBothAngles ==
    /\ [](combined # NoResult =>
            /\ \A a \in Angles : pc[a] = "done" /\ result[a] # NoResult
            /\ Len(finished) = 2
            /\ combined.angle_results = <<result[1], result[2]>>)
    /\ [][combined' # combined =>
            /\ \A a \in Angles : pc[a] = "done" /\ result[a] # NoResult
            /\ combined'.angle_results = <<result[1], result[2]>>]_vars
    /\ [][\A a \in Angles : result[a] # NoResult => result'[a] = result[a]]_vars

C21_Witness ==
    /\ combined # NoResult
    /\ finished = <<2, 1>>
    /\ result[1] # result[2]
    /\ combined.angle_results = <<result[1], result[2]>>

(***************************************************************************)
(* C22: a request that was cancelled, at whatever point of its pipeline,   *)
(* returns no result at all: no per-angle AnalysisResult and no            *)
(* MultiAngleResult, also when one angle had already finished.             *)
(***************************************************************************)
C22_CancelledReturnsNothing ==
    Cancelled =>
        /\ \A a \in Angles : result[a] = NoResult
        /\ combined = NoResult

C22_Witness ==
    /\ Cancelled
    /\ mode = "dual"
    /\ fb[1] = "ran"
    /\ vstate[2] = "RepairAttempted"
    /\ result[1] = NoResult

(***************************************************************************)
(* C24: whenever the wallet reports no publicKey, the last address         *)
(* SolanaWalletConnect reported through onAddressChange is null and        *)
(* isAuthorized is false, also when an initializeService started for an    *)
(* earlier publicKey completes after the disconnect.                       *)
(***************************************************************************)
C24_NoKeyNoAddressNotAuthorized ==
    wallet.publicKey = "null" =>
        /\ wallet.address = "null"
        /\ ~wallet.isAuthorized

(***************************************************************************)
(* C30: SolanaService.initialize is all-or-nothing: a call that throws     *)
(* leaves the service as it was, so that on a service no call has yet      *)
(* initialized getConnection, getProvider and getProgram all throw, and    *)
(* once one of them returns a value all three do.                          *)
(***************************************************************************)
InitializeThrew ==
    /\ wallet'.publicKey # wallet.publicKey
    /\ wallet'.publicKey # "null"
    /\ wallet'.checks = wallet.checks

C30_InitializeAllOrNothing ==
    /\ [][InitializeThrew => solanaService' = solanaService]_vars
    /\ [](\/ /\ getConnection(solanaService) = "throws"
              /\ getProvider(solanaService) = "throws"
              /\ getProgram(solanaService) = "throws"
           \/ /\ getConnection(solanaService) # "throws"
              /\ getProvider(solanaService) # "throws"
              /\ getProgram(solanaService) # "throws")

(***************************************************************************)
(* C25: two logEvent calls that overlap never have transactions submitted  *)
(* for the same event account, although each call reads the event id from  *)
(* programState.nextEventId before its transaction is sent.                *)
(***************************************************************************)
C25_OverlappingCallsDistinctEvents ==
    \A c1, c2 \in LogCallers :
        (c1 # c2 /\ logCall[c1].pc = "sent" /\ logCall[c2].pc = "sent")
            => logCall[c1].event # logCall[c2].event

(***************************************************************************)
(* C26: once signOut() has resolved after a successful sign-out, the user  *)
(* of SupabaseAuthProvider is null and isAuthenticated is false, and they  *)
(* stay so until an onAuthStateChange event delivers a session, also when  *)
(* a checkSession call was in flight when signOut was invoked.             *)
(***************************************************************************)
C26_SignedOutStaysSignedOut ==
    supabaseAuth.signedOut =>
        /\ supabaseAuth.user = "null"
        /\ ~isAuthenticated(supabaseAuth.user)

(***************************************************************************)
(* C27: after handleLogin has succeeded with the name N and the role R     *)
(* entered on LoginScreen, the user held by AuthProvider and the user      *)
(* persisted under @boxity_user have the name N and the role R.            *)
(***************************************************************************)
C27_LoginKeepsNameAndRole ==
    [][LoginReturn("ok") =>
          /\ auth'.user.name = screen.submitting.fullName
          /\ auth'.user.role = screen.submitting.selectedRole
          /\ JSON_parse(storage'.user).name = screen.submitting.fullName
          /\ JSON_parse(storage'.user).role = screen.submitting.selectedRole]_vars

(***************************************************************************)
(* C28: whenever no loadAuth, login or logout is in flight, isAuthenticated *)
(* is true exactly when the user is not null, whatever operations ran and  *)
(* whichever storage calls rejected, a logout whose removal rejected       *)
(* included.                                                               *)
(***************************************************************************)
AuthQuiet ==
    /\ auth.load \in {"done", "failed"}
    /\ auth.logouts = 0
    /\ screen.submitting = NoResult

C28_AuthenticatedIffUser ==
    AuthQuiet => (auth.isAuthenticated <=> auth.user # NoUser)

\* a logout removed the token, its removal of the user rejected: the user
\* stays logged in
C28_Witness ==
    /\ AuthQuiet
    /\ auth.isAuthenticated
    /\ auth.user # NoUser
    /\ storage.token = "null"
    /\ storage.user = JSON_stringify(auth.user)

(***************************************************************************)
(* C29: after AuthProvider has mounted, isLoading becomes false and stays  *)
(* false, whether the storage reads resolve or reject and whether the      *)
(* removals of clearAuth resolve or reject; Index then leaves its empty    *)
(* rendering by a redirect, to /(tabs)/scan when isAuthenticated and to    *)
(* /login otherwise.                                                       *)
(***************************************************************************)
C29_LoadingEndsAndIndexRedirects ==
    /\ <>[](~auth.isLoading)
    /\ <>(screen.route # "/")
    /\ [][(screen.route = "/" /\ screen'.route # "/") =>
             /\ ~auth.isLoading
             /\ screen'.route = IF auth.isAuthenticated THEN "/(tabs)/scan"
                                 ELSE "/login"]_vars

\* the reads rejected and so did a removal of clearAuth: loadAuth ended by
\* a rejection, and Index has redirected to the login screen
C29_Witness ==
    /\ auth.load = "failed"
    /\ ~auth.isLoading
    /\ ~auth.isAuthenticated
    /\ screen.route = "/login"

====
